---------------------------- MODULE Spec2Model ----------------------------
(***************************************************************************)
(* State-machine model of the wagering front end:                          *)
(*   - useEthereumWallet  (src/frontend/src/hooks/useEthereumWallet.js)    *)
(*   - EscrowModal        (src/unnamed/part_010)                           *)
(*   - WagerFilter        (src/frontend/src/components/WagerFilter.jsx)    *)
(* Amounts are integers counted in units of 0.01 ETH; the text of a number *)
(* input is a sequence of characters.                                      *)
(***************************************************************************)
EXTENDS Integers, Sequences, FiniteSets, Bags, TLC

(***************************************************************************)
(* Bounds of the model                                                     *)
(***************************************************************************)
MaxConnects == 2        \* connect() flows awaiting the provider at once
MaxInFlight == 2        \* onInitiate / onDeposit calls outstanding at once
MaxCompletions == 2     \* onComplete invocations recorded per session

VARIABLES
  \* ---- useEthereumWallet (one hook instance) ----
  hasProvider,          \* window.ethereum is present
  address,              \* useState('')
  chainId,              \* useState('')
  connecting,           \* useState(false)
  walletError,          \* useState('') of the hook ("error" in the source)
  providerRef,          \* providerRef.current / signerRef.current are set
  isManuallyConnecting, \* useRef(false)
  initInFlight,         \* useRef(false)
  initPc,               \* position of the mount-time read: "none" | "pending" | "done"
  connectsInFlight,     \* connect() flows suspended at their Promise.all
  lastConnect,          \* history: what the provider returned to the last resolved connect()
  \* ---- EscrowModal ----
  open, defaultWager, opponentWager,
  step, wager, error, txHash,
  pendingInitiate,      \* bag of outstanding onInitiate calls
  pendingDeposit,       \* bag of outstanding onDeposit calls
  completions,          \* history: onComplete arguments of the opened session
  \* ---- WagerFilter ----
  globalMin, globalMax, \* props min / max
  value,                \* prop value, held by the parent
  controlled,           \* the parent stores what onChange hands it (App.js) or not (tests)
  local,                \* useState pair; a bound is a number or the text being typed
  lastEmittedRef,       \* useRef pair
  emitted,              \* history: the last onChange argument and the parity of the calls
  \* ---- component lifetimes and the profile fetches of App and ProfileList ----
  mounted,              \* the component owning the wallet hook is mounted
  fetchMounted,         \* per owner: the effect's "mounted" flag (let mounted = true)
  fetchPc,              \* per owner: apiGetProfiles() is "pending" or "done"
  loading,              \* per owner: loadingProfiles / loading
  loadError,            \* per owner: profilesError / loadError
  loaded,               \* per owner: setProfiles / setRemoteProfiles was called
  \* ---- a second component's instance of useEthereumWallet ----
  peerAddress, peerChainId,
  peerInitPc,           \* position of the peer's mount-time read
  \* ---- the sequential revision of useEthereumWallet ----
  seqConnects,          \* bag of connect() flows: awaiting "accounts" or "chain"
  seqInitPc,            \* mount-time reads: "none" | "accounts" | "chain" | "done"
  \* ---- DepositsDashboard ----
  sending, sendError, lastTx,
  pendingSend,          \* outstanding onDeposit calls of the dashboard
  \* ---- LinkAccountModal ----
  linkOpen, linkTag, touched, submitting, linkError,
  linkMode, linkToken,  \* mode ('tag' | 'token') and the token input
  pendingSubmit,        \* outstanding onSubmit calls
  \* ---- ProfileList, the parent of the EscrowModal ----
  matchId,              \* useState(null); 0 stands for null
  depositCall           \* the handleDeposit call in progress: where it waits, the
                        \* matchId of its closure, the txHash of the chain, and
                        \* whether it logged its warning

walletVars == <<hasProvider, address, chainId, connecting, walletError, providerRef,
                isManuallyConnecting, initInFlight, initPc, connectsInFlight,
                lastConnect>>
escrowVars == <<open, defaultWager, opponentWager, step, wager, error, txHash,
                pendingInitiate, pendingDeposit, completions>>
filterVars == <<globalMin, globalMax, value, controlled, local, lastEmittedRef, emitted>>
lifeVars == <<mounted, fetchMounted, fetchPc, loading, loadError, loaded>>
peerVars == <<peerAddress, peerChainId, peerInitPc>>
seqVars == <<seqConnects, seqInitPc>>
dashVars == <<sending, sendError, lastTx, pendingSend>>
linkVars == <<linkOpen, linkTag, touched, submitting, linkError, linkMode, linkToken,
              pendingSubmit>>
plVars == <<matchId, depositCall>>
restVars == <<lifeVars, peerVars, seqVars, dashVars, linkVars, plVars>>
vars == <<walletVars, escrowVars, filterVars, restVars>>

(***************************************************************************)
(* JavaScript values: numbers, strings (character sequences) and NaN       *)
(***************************************************************************)
Num(n) == [k |-> "num", n |-> n, s |-> <<>>]
Str(s) == [k |-> "str", n |-> 0, s |-> s]
NaN == [k |-> "nan", n |-> 0, s |-> <<>>]
Digits == {"0", "1", "2", "3", "4", "5", "6", "7", "8", "9"}
DigitVal(c) == CASE c = "0" -> 0 [] c = "1" -> 1 [] c = "2" -> 2 [] c = "3" -> 3
                 [] c = "4" -> 4 [] c = "5" -> 5 [] c = "6" -> 6 [] c = "7" -> 7
                 [] c = "8" -> 8 [] c = "9" -> 9

\* length of the longest prefix of s made of digits
RECURSIVE DigitPrefixLen(_)
DigitPrefixLen(s) ==
  IF s = <<>> \/ Head(s) \notin Digits THEN 0 ELSE 1 + DigitPrefixLen(Tail(s))

\* value of a sequence of digits
RECURSIVE DigitsValue(_)
DigitsValue(s) ==
  IF s = <<>> THEN 0 ELSE 10 * DigitsValue(SubSeq(s, 1, Len(s) - 1)) + DigitVal(s[Len(s)])


\* parseFloat(val): a number as it is; of a text, an optional sign and the longest
\* digit prefix, NaN when that prefix is empty
ParseFloat(v) ==
  IF v.k # "str" THEN v
  ELSE LET neg == v.s # <<>> /\ Head(v.s) = "-"
           body == IF neg THEN Tail(v.s) ELSE v.s
           n == DigitPrefixLen(body)
       IN IF n = 0 THEN NaN
          ELSE Num((IF neg THEN -1 ELSE 1) * DigitsValue(SubSeq(body, 1, n)))

\* Number(val): the empty text is 0, a text that is not wholly a numeral is NaN
ToNumber(v) ==
  IF v.k # "str" THEN v
  ELSE IF v.s = <<>> THEN Num(0)
  ELSE LET neg == Head(v.s) = "-"
           body == IF neg THEN Tail(v.s) ELSE v.s
       IN IF body = <<>> \/ DigitPrefixLen(body) # Len(body) THEN NaN
          ELSE Num((IF neg THEN -1 ELSE 1) * DigitsValue(body))

\* !val
Falsy(v) == \/ v.k = "nan"
            \/ v.k = "num" /\ v.n = 0
            \/ v.k = "str" /\ v.s = <<>>

(***************************************************************************)
(* useEthereumWallet                                                       *)
(***************************************************************************)
AccountLists == {<<>>, <<"0xaaa">>, <<"0xbbb">>, <<"0xbbb", "0xaaa">>}
ChainIds == {"0x1", "0x5"}
ChainReplies == ChainIds \cup {""}         \* "" stands for an empty / missing id

\* ethers.utils.getAddress: the checksummed (mixed-case) form of an account
getAddress(a) == CASE a = "0xaaa" -> "0xAaA" [] a = "0xbbb" -> "0xBbB"

ErrNoWallet == "No Ethereum wallet detected. Please install MetaMask."
ErrRejected == "Connection request rejected."
ErrConnectDefault == "Failed to connect wallet."
\* a rejection of a provider request: code 4001 or another code, with or without message
ProviderErrors == {[code |-> 4001, message |-> "User rejected"],
                   [code |-> -32002, message |-> "Request pending"],
                   [code |-> -32603, message |-> ""]}

isConnected == address # ""

\* guardedSetAddress / guardedSetChainId: the value the state takes
guardedSetAddress(cur, next) == IF isManuallyConnecting THEN cur ELSE next
guardedSetChainId(cur, next) == IF isManuallyConnecting THEN cur ELSE next

WalletInit ==
  /\ hasProvider \in BOOLEAN
  /\ address = "" /\ chainId = "" /\ connecting = FALSE /\ walletError = ""
  /\ isManuallyConnecting = FALSE
  \* the mount effect has run: listeners subscribed, ensureProvider(), init read scheduled
  /\ providerRef = hasProvider
  /\ initInFlight = hasProvider
  /\ initPc = IF hasProvider THEN "pending" ELSE "none"
  /\ connectsInFlight = 0
  /\ lastConnect = [set |-> FALSE, addr |-> "", chain |-> ""]

\* connect(), up to its await (or its early return when no provider is injected)
ConnectBegin ==
  /\ IF ~hasProvider
       THEN /\ walletError' = ErrNoWallet
            /\ connecting' = FALSE
            /\ isManuallyConnecting' = FALSE
            /\ UNCHANGED <<providerRef, connectsInFlight>>
       ELSE /\ connectsInFlight < MaxConnects
            /\ walletError' = ""
            /\ connecting' = TRUE
            /\ isManuallyConnecting' = TRUE
            /\ providerRef' = TRUE
            /\ connectsInFlight' = connectsInFlight + 1
  /\ UNCHANGED <<escrowVars, filterVars, restVars>>
  /\ UNCHANGED <<hasProvider, address, chainId, initInFlight, initPc, lastConnect>>

\* the finally block of connect()
ConnectFinally ==
  /\ connecting' = FALSE
  /\ isManuallyConnecting' = FALSE

\* both provider requests of a connect() resolved
ConnectResolve(accounts, id) ==
  /\ connectsInFlight > 0
  /\ connectsInFlight' = connectsInFlight - 1
  /\ address' = IF Len(accounts) > 0 THEN getAddress(accounts[1]) ELSE ""
  /\ chainId' = id
  /\ lastConnect' = [set |-> TRUE, addr |-> address', chain |-> chainId']
  /\ ConnectFinally
  /\ UNCHANGED <<escrowVars, filterVars, restVars>>
  /\ UNCHANGED <<hasProvider, walletError, providerRef, initInFlight, initPc>>

\* a rejection handler that also forgets the account
ConnectRejectClearsAddress(e) ==
  /\ connectsInFlight > 0
  /\ connectsInFlight' = connectsInFlight - 1
  /\ walletError' = IF e.code = 4001 THEN ErrRejected
                    ELSE IF e.message # "" THEN e.message ELSE ErrConnectDefault
  /\ address' = ""
  /\ ConnectFinally
  /\ UNCHANGED <<escrowVars, filterVars, restVars>>
  /\ UNCHANGED <<hasProvider, chainId, providerRef, initInFlight, initPc, lastConnect>>

\* one of the provider requests of a connect() rejected
ConnectReject(e) ==
  /\ connectsInFlight > 0
  /\ connectsInFlight' = connectsInFlight - 1
  /\ walletError' = IF e.code = 4001 THEN ErrRejected
                    ELSE IF e.message # "" THEN e.message ELSE ErrConnectDefault
  /\ ConnectFinally
  /\ UNCHANGED <<escrowVars, filterVars, restVars>>
  /\ UNCHANGED <<hasProvider, address, chainId, providerRef, initInFlight, initPc,
                 lastConnect>>

\* a disconnect that leaves the chain id behind
DisconnectKeepsChainId ==
  /\ address' = "" /\ walletError' = ""
  /\ providerRef' = FALSE
  /\ lastConnect' = [set |-> FALSE, addr |-> "", chain |-> ""]
  /\ UNCHANGED <<escrowVars, filterVars, restVars>>
  /\ UNCHANGED <<hasProvider, chainId, connecting, isManuallyConnecting, initInFlight,
                 initPc, connectsInFlight>>

\* disconnect()
Disconnect ==
  /\ address' = "" /\ chainId' = "" /\ walletError' = ""
  /\ providerRef' = FALSE
  /\ lastConnect' = [set |-> FALSE, addr |-> "", chain |-> ""]
  /\ UNCHANGED <<escrowVars, filterVars, restVars>>
  /\ UNCHANGED <<hasProvider, connecting, isManuallyConnecting, initInFlight, initPc,
                 connectsInFlight>>

\* provider event accountsChanged
handleAccountsChanged(accounts) ==
  /\ hasProvider
  /\ address' = IF Len(accounts) > 0 THEN getAddress(accounts[1]) ELSE ""
  /\ lastConnect' = [set |-> FALSE, addr |-> "", chain |-> ""]
  /\ UNCHANGED <<escrowVars, filterVars, restVars>>
  /\ UNCHANGED <<hasProvider, chainId, connecting, walletError, providerRef,
                 isManuallyConnecting, initInFlight, initPc, connectsInFlight>>

\* provider event chainChanged
handleChainChanged(id) ==
  /\ hasProvider
  /\ chainId' = id
  /\ lastConnect' = [set |-> FALSE, addr |-> "", chain |-> ""]
  /\ UNCHANGED <<escrowVars, filterVars, restVars>>
  /\ UNCHANGED <<hasProvider, address, connecting, walletError, providerRef,
                 isManuallyConnecting, initInFlight, initPc, connectsInFlight>>

\* the mount-time read: Promise.all of eth_accounts and eth_chainId resolved
InitReadResolve(accounts, id) ==
  /\ initPc = "pending"
  /\ initPc' = "done"
  /\ initInFlight' = FALSE
  /\ IF ~isManuallyConnecting
       THEN /\ address' = IF Len(accounts) > 0
                            THEN guardedSetAddress(address, getAddress(accounts[1]))
                            ELSE address
            /\ chainId' = IF id # "" THEN guardedSetChainId(chainId, id) ELSE chainId
       ELSE UNCHANGED <<address, chainId>>
  /\ UNCHANGED <<escrowVars, filterVars, restVars>>
  /\ UNCHANGED <<hasProvider, connecting, walletError, providerRef, isManuallyConnecting,
                 connectsInFlight, lastConnect>>

\* the mount-time read rejected: silent
InitReadReject ==
  /\ initPc = "pending"
  /\ initPc' = "done"
  /\ initInFlight' = FALSE
  /\ UNCHANGED <<escrowVars, filterVars, restVars>>
  /\ UNCHANGED <<hasProvider, address, chainId, connecting, walletError, providerRef,
                 isManuallyConnecting, connectsInFlight, lastConnect>>

(***************************************************************************)
(* EscrowModal                                                             *)
(***************************************************************************)
DefaultWagerFallback == 10                 \* 0.1 ETH
Steps == {"review", "confirm", "pending", "success", "failure"}
\* what the wager input can hand to setWager (e.target.value of a number input)
WagerTexts == {<<>>, <<"-", "5">>, <<"5", "0">>}
\* props: 0 stands for an absent (or zero) amount
WagerProps == {<<25, 75>>, <<0, 75>>, <<0, 0>>}   \* <<defaultWager, opponent.wagerEth>>
TxHashes == {"0xabc123"}
DepositReplies == TxHashes \cup {""}       \* "" stands for a result without txHash
MockTxHash == "0xmockedtx"
ErrInitiateDefault == "Failed to initiate match. Please try again."
ErrDepositDefault == "The transaction failed or was rejected."
HandlerErrors == {"Network error", ""}     \* e.message of a rejection, "" when absent

BagAdd(B, x) == B (+) SetToBag({x})
BagRemove(B, x) == B (-) SetToBag({x})
\* every outstanding call now belongs to an earlier session
MarkStale(B) ==
  IF B = EmptyBag THEN EmptyBag
  ELSE LET S == {[r EXCEPT !.stale = TRUE] : r \in BagToSet(B)}
       IN [r \in S |-> CopiesIn(r, B) + CopiesIn([r EXCEPT !.stale = FALSE], B)]

\* defaultWager || opponent?.wagerEth || 0.1
InitialWager(dw, ow) ==
  IF dw # 0 THEN Num(dw) ELSE IF ow # 0 THEN Num(ow) ELSE Num(DefaultWagerFallback)

\* the wagerEth both handlers are called with: Number(wager)
WagerArg == ToNumber(wager)

canProceed ==
  /\ ~Falsy(wager)
  /\ ToNumber(wager).k = "num"
  /\ ToNumber(wager).n > 0

\* Continue offered without looking at the wallet
ContinueOfferedAlways == open /\ step = "review"

\* the buttons the render offers
ContinueOffered == open /\ step = "review" /\ isConnected
ConnectOffered == open /\ step = "review" /\ ~isConnected
ConfirmOffered == open /\ step = "confirm"
RetryOffered == open /\ step = "failure"

EscrowInit ==
  /\ open = FALSE /\ defaultWager = 0 /\ opponentWager = 0
  /\ step = "review" /\ error = "" /\ txHash = ""
  /\ wager = InitialWager(0, 0)
  /\ pendingInitiate = EmptyBag /\ pendingDeposit = EmptyBag
  /\ completions = <<>>

\* a reset that forgets the transaction id
ResetOnOpenKeepsTxHash(dw, ow) ==
  /\ step' = "review"
  /\ error' = ""
  /\ txHash' = txHash
  /\ wager' = InitialWager(dw, ow)

\* the reset effect, run when open turns true
ResetOnOpen(dw, ow) ==
  /\ step' = "review"
  /\ error' = ""
  /\ txHash' = ""
  /\ wager' = InitialWager(dw, ow)

\* the parent opens the modal for a selected opponent
OpenModal(dw, ow) ==
  /\ UNCHANGED <<walletVars, filterVars, restVars>>
  /\ ~open
  /\ open' = TRUE /\ defaultWager' = dw /\ opponentWager' = ow
  /\ ResetOnOpen(dw, ow)
  /\ pendingInitiate' = MarkStale(pendingInitiate)
  /\ pendingDeposit' = MarkStale(pendingDeposit)
  /\ completions' = <<>>

\* onClose: Cancel / Close / Done / the overlay, offered in every step
CloseModal ==
  /\ UNCHANGED <<walletVars, filterVars, restVars>>
  /\ open
  /\ open' = FALSE
  /\ defaultWager' = 0 /\ opponentWager' = 0     \* closeModal: setSelected(null)
  /\ completions' = <<>>
  /\ UNCHANGED <<step, wager, error, txHash,
                 pendingInitiate, pendingDeposit>>

\* the wager input's onChange
SetWager(text) ==
  /\ UNCHANGED <<walletVars, filterVars, restVars>>
  /\ open
  /\ wager' = Str(text)
  /\ UNCHANGED <<open, defaultWager, opponentWager, step, error, txHash,
                 pendingInitiate, pendingDeposit, completions>>

\* Continue: beginFlow up to its await
beginFlow ==
  /\ UNCHANGED <<walletVars, filterVars, restVars>>
  /\ ContinueOffered
  /\ canProceed
  /\ BagCardinality(pendingInitiate) < MaxInFlight
  /\ error' = ""
  /\ pendingInitiate' = BagAdd(pendingInitiate, [stale |-> FALSE])
  /\ UNCHANGED <<open, defaultWager, opponentWager, step, wager, txHash,
                 pendingDeposit, completions>>

\* onInitiate resolved
InitiateResolve(c) ==
  /\ UNCHANGED <<walletVars, filterVars, restVars>>
  /\ BagIn(c, pendingInitiate)
  /\ pendingInitiate' = BagRemove(pendingInitiate, c)
  /\ step' = "confirm"
  /\ UNCHANGED <<open, defaultWager, opponentWager, wager, error, txHash,
                 pendingDeposit, completions>>

\* onInitiate threw
InitiateReject(c, msg) ==
  /\ UNCHANGED <<walletVars, filterVars, restVars>>
  /\ BagIn(c, pendingInitiate)
  /\ pendingInitiate' = BagRemove(pendingInitiate, c)
  /\ error' = IF msg # "" THEN msg ELSE ErrInitiateDefault
  /\ UNCHANGED <<open, defaultWager, opponentWager, step, wager, txHash,
                 pendingDeposit, completions>>

\* a confirmDeposit that calls onDeposit without entering pending
confirmDepositNoPending ==
  /\ UNCHANGED <<walletVars, filterVars, restVars>>
  /\ open /\ step = "confirm"
  /\ Len(completions) + BagCardinality(pendingDeposit) < MaxCompletions
  /\ error' = ""
  /\ pendingDeposit' = BagAdd(pendingDeposit, [stale |-> FALSE, tx |-> txHash])
  /\ UNCHANGED <<open, defaultWager, opponentWager, step, wager, txHash,
                 pendingInitiate, completions>>

\* Confirm Deposit: confirmDeposit up to its await
confirmDeposit ==
  /\ UNCHANGED <<walletVars, filterVars, restVars>>
  /\ ConfirmOffered
  /\ Len(completions) + BagCardinality(pendingDeposit) < MaxCompletions
  /\ error' = ""
  /\ step' = "pending"
  /\ pendingDeposit' = BagAdd(pendingDeposit, [stale |-> FALSE, tx |-> txHash])
  /\ UNCHANGED <<open, defaultWager, opponentWager, wager, txHash,
                 pendingInitiate, completions>>

\* onDeposit resolved with { txHash: h }
DepositResolve(c, h) ==
  /\ UNCHANGED <<walletVars, filterVars, restVars>>
  /\ BagIn(c, pendingDeposit)
  /\ pendingDeposit' = BagRemove(pendingDeposit, c)
  /\ txHash' = IF h # "" THEN h ELSE MockTxHash
  /\ step' = "success"
  /\ completions' = Append(completions, [status |-> "success", txHash |-> c.tx])
  /\ UNCHANGED <<open, defaultWager, opponentWager, wager, error,
                 pendingInitiate>>

\* onDeposit threw
DepositReject(c, msg) ==
  /\ UNCHANGED <<walletVars, filterVars, restVars>>
  /\ BagIn(c, pendingDeposit)
  /\ pendingDeposit' = BagRemove(pendingDeposit, c)
  /\ step' = "failure"
  /\ error' = IF msg # "" THEN msg ELSE ErrDepositDefault
  /\ completions' = Append(completions, [status |-> "failure", txHash |-> ""])
  /\ UNCHANGED <<open, defaultWager, opponentWager, wager, txHash,
                 pendingInitiate>>

\* Retry
restart ==
  /\ UNCHANGED <<walletVars, filterVars, restVars>>
  /\ RetryOffered
  /\ step' = "review" /\ error' = "" /\ txHash' = ""
  /\ UNCHANGED <<open, defaultWager, opponentWager, wager,
                 pendingInitiate, pendingDeposit, completions>>

\* Connect Wallet button of the review step: onClick = connect
ConnectClick ==
  /\ ConnectOffered
  /\ ConnectBegin

(***************************************************************************)
(* WagerFilter                                                             *)
(***************************************************************************)
\* configured ranges <<min, max>>: the one of App.js (0.01 .. 5 ETH) and narrower ones
GlobalRanges == {<<1, 500>>, <<20, 40>>, <<60, 200>>}
\* what an <input type="number"> can hand to the change handlers
FilterTexts == {<<>>, <<"-", "2">>, <<"3", "0">>, <<"7", "0">>, <<"9", "0", "0">>}
Pair(a, b) == [min |-> a, max |-> b]
PresetTenth == 10                          \* 0.1 ETH
PresetHalf == 50                           \* 0.5 ETH
PresetOne == 100                           \* 1.0 ETH
presets == {Pair(Num(globalMin), Num(globalMax)),
            Pair(Num(globalMin), Num(PresetTenth)),
            Pair(Num(PresetTenth), Num(PresetHalf)),
            Pair(Num(PresetHalf), Num(PresetOne)),
            Pair(Num(PresetOne), Num(globalMax))}

\* null (here NaN) unless the value is, or parses to, a number
parseMaybeNumber(v) == ParseFloat(v)
IsNull(v) == v.k # "num"

\* clamp that forgets the upper bound
clampLowerOnly(v, lo, hi) == IF v.n < lo THEN Num(lo) ELSE v

clamp(v, lo, hi) == IF v.n < lo THEN Num(lo) ELSE IF v.n > hi THEN Num(hi) ELSE v

IsFiniteNumber(v) == v.k = "num"

\* an emission test that forgets to compare with the last emitted pair
EmitsUnchangedToo(next) ==
  /\ IsFiniteNumber(next.min) /\ IsFiniteNumber(next.max)

\* emitIfValidAndChanged(next): does it call onChange
Emits(next) ==
  /\ IsFiniteNumber(next.min) /\ IsFiniteNumber(next.max)
  /\ (lastEmittedRef.min # next.min \/ lastEmittedRef.max # next.max)

\* emitIfValidAndChanged(next), and the parent's reaction to onChange
emitIfValidAndChanged(next) ==
  IF Emits(next)
    THEN /\ emitted' = [n |-> 1 - emitted.n, pair |-> next]
         /\ lastEmittedRef' = next
         /\ value' = IF controlled THEN next ELSE value
    ELSE UNCHANGED <<emitted, lastEmittedRef, value>>

FilterInit ==
  /\ \E r \in GlobalRanges : globalMin = r[1] /\ globalMax = r[2]
  /\ controlled \in BOOLEAN
  /\ value \in {Pair(Num(globalMin), Num(globalMax)),
                Pair(Num(globalMin + 1), Num(globalMax - 1)),
                Pair(clamp(Num(20), globalMin, globalMax),
                     clamp(Num(80), globalMin, globalMax))}     \* 0.2 .. 0.8 ETH
  /\ local = value
  /\ lastEmittedRef = value
  /\ emitted = [n |-> 0, pair |-> value]

handleMinChange(raw) ==
  /\ UNCHANGED <<walletVars, escrowVars, restVars, globalMin, globalMax, controlled>>
  /\ LET parsedMin == parseMaybeNumber(raw)
         nextMin == clamp(parsedMin, globalMin, globalMax)
         parsedMax == parseMaybeNumber(local.max)
         clampedMax == clamp(parsedMax, globalMin, globalMax)
         nextMax == IF nextMin.n > clampedMax.n THEN nextMin ELSE clampedMax
     IN IF IsNull(parsedMin)
          THEN /\ local' = [local EXCEPT !.min = raw]
               /\ UNCHANGED <<emitted, lastEmittedRef, value>>
          ELSE IF IsNull(parsedMax)
            THEN /\ local' = [local EXCEPT !.min = nextMin]
                 /\ UNCHANGED <<emitted, lastEmittedRef, value>>
            ELSE /\ local' = Pair(nextMin, nextMax)
                 /\ emitIfValidAndChanged(Pair(nextMin, nextMax))

handleMaxChange(raw) ==
  /\ UNCHANGED <<walletVars, escrowVars, restVars, globalMin, globalMax, controlled>>
  /\ LET parsedMax == parseMaybeNumber(raw)
         nextMax == clamp(parsedMax, globalMin, globalMax)
         parsedMin == parseMaybeNumber(local.min)
         clampedMin == clamp(parsedMin, globalMin, globalMax)
         nextMin == IF nextMax.n < clampedMin.n THEN nextMax ELSE clampedMin
     IN IF IsNull(parsedMax)
          THEN /\ local' = [local EXCEPT !.max = raw]
               /\ UNCHANGED <<emitted, lastEmittedRef, value>>
          ELSE IF IsNull(parsedMin)
            THEN /\ local' = [local EXCEPT !.max = nextMax]
                 /\ UNCHANGED <<emitted, lastEmittedRef, value>>
            ELSE /\ local' = Pair(nextMin, nextMax)
                 /\ emitIfValidAndChanged(Pair(nextMin, nextMax))

\* the coerced pair a blur computes
BlurPair ==
  LET p1 == parseMaybeNumber(local.min)
      p2 == parseMaybeNumber(local.max)
      pMin == IF IsNull(p1) THEN clamp(lastEmittedRef.min, globalMin, globalMax) ELSE p1
      pMax == IF IsNull(p2) THEN clamp(lastEmittedRef.max, globalMin, globalMax) ELSE p2
      nextMin == clamp(pMin, globalMin, globalMax)
      clampedMax == clamp(pMax, globalMin, globalMax)
  IN Pair(nextMin, IF nextMin.n > clampedMax.n THEN nextMin ELSE clampedMax)

handleBlurCoerceAndEmit ==
  /\ UNCHANGED <<walletVars, escrowVars, restVars, globalMin, globalMax, controlled>>
  /\ local' = BlurPair
  /\ emitIfValidAndChanged(BlurPair)

\* a preset that only fills the fields
applyPresetSilent(p) ==
  /\ UNCHANGED <<walletVars, escrowVars, restVars, globalMin, globalMax, controlled>>
  /\ local' = p
  /\ UNCHANGED <<emitted, lastEmittedRef, value>>

applyPreset(p) ==
  /\ UNCHANGED <<walletVars, escrowVars, restVars, globalMin, globalMax, controlled>>
  /\ local' = p
  /\ emitIfValidAndChanged(p)

(***************************************************************************)
(* useEthereumWallet, sequential revision (the second definition in the    *)
(* file): no guard flags, the two provider requests awaited one by one     *)
(***************************************************************************)
\* the address a list of accounts stands for
firstAccount(accounts) == IF Len(accounts) > 0 THEN getAddress(accounts[1]) ELSE ""

SeqWalletInit ==
  /\ hasProvider \in BOOLEAN
  /\ address = "" /\ chainId = "" /\ connecting = FALSE /\ walletError = ""
  /\ providerRef = hasProvider
  \* this revision has neither guard flag nor the Promise.all read
  /\ isManuallyConnecting = FALSE /\ initInFlight = FALSE /\ initPc = "none"
  /\ connectsInFlight = 0
  /\ lastConnect = [set |-> FALSE, addr |-> "", chain |-> ""]
  /\ seqConnects = EmptyBag
  /\ seqInitPc = IF hasProvider THEN "accounts" ELSE "none"

\* connect(), up to its first await (or its early return)
SeqConnectBegin ==
  /\ IF ~hasProvider
       THEN /\ walletError' = ErrNoWallet
            /\ connecting' = FALSE
            /\ UNCHANGED <<providerRef, seqConnects>>
       ELSE /\ BagCardinality(seqConnects) < MaxConnects
            /\ walletError' = ""
            /\ connecting' = TRUE
            /\ providerRef' = TRUE
            /\ seqConnects' = BagAdd(seqConnects, [stage |-> "accounts", addr |-> ""])
  /\ UNCHANGED <<escrowVars, filterVars, lifeVars, peerVars, dashVars, linkVars, plVars>>
  /\ UNCHANGED <<hasProvider, address, chainId, isManuallyConnecting, initInFlight,
                 initPc, connectsInFlight, lastConnect, seqInitPc>>

\* eth_requestAccounts resolved: the address is set, then eth_chainId is requested
SeqAccountsResolve(f, accounts) ==
  /\ BagIn(f, seqConnects) /\ f.stage = "accounts"
  /\ address' = IF Len(accounts) > 0 THEN firstAccount(accounts) ELSE address
  /\ seqConnects' = BagAdd(BagRemove(seqConnects, f),
                           [stage |-> "chain", addr |-> firstAccount(accounts)])
  /\ UNCHANGED <<escrowVars, filterVars, lifeVars, peerVars, dashVars, linkVars, plVars>>
  /\ UNCHANGED <<hasProvider, chainId, connecting, walletError, providerRef,
                 isManuallyConnecting, initInFlight, initPc, connectsInFlight,
                 lastConnect, seqInitPc>>

\* eth_chainId resolved: the chain id is set and connect() finishes
SeqChainResolve(f, id) ==
  /\ BagIn(f, seqConnects) /\ f.stage = "chain"
  /\ chainId' = id
  /\ connecting' = FALSE
  /\ seqConnects' = BagRemove(seqConnects, f)
  /\ UNCHANGED <<escrowVars, filterVars, lifeVars, peerVars, dashVars, linkVars, plVars>>
  /\ UNCHANGED <<hasProvider, address, walletError, providerRef,
                 isManuallyConnecting, initInFlight, initPc, connectsInFlight,
                 lastConnect, seqInitPc>>

\* the request a connect() is awaiting rejected
SeqConnectReject(f, e) ==
  /\ BagIn(f, seqConnects)
  /\ walletError' = IF e.code = 4001 THEN ErrRejected
                    ELSE IF e.message # "" THEN e.message ELSE ErrConnectDefault
  /\ connecting' = FALSE
  /\ seqConnects' = BagRemove(seqConnects, f)
  /\ UNCHANGED <<escrowVars, filterVars, lifeVars, peerVars, dashVars, linkVars, plVars>>
  /\ UNCHANGED <<hasProvider, address, chainId, providerRef,
                 isManuallyConnecting, initInFlight, initPc, connectsInFlight,
                 lastConnect, seqInitPc>>

\* readAccounts of the mount effect settled (accounts = <<>> also stands for a
\* rejection, which is only logged); readChain is called next
readAccounts(accounts) ==
  /\ seqInitPc = "accounts"
  /\ seqInitPc' = "chain"
  /\ address' = IF Len(accounts) > 0 THEN firstAccount(accounts) ELSE address
  /\ UNCHANGED <<escrowVars, filterVars, lifeVars, peerVars, dashVars, linkVars, plVars>>
  /\ UNCHANGED <<hasProvider, chainId, connecting, walletError, providerRef,
                 isManuallyConnecting, initInFlight, initPc, connectsInFlight,
                 lastConnect, seqConnects>>

\* readChain of the mount effect resolved
readChain(id) ==
  /\ seqInitPc = "chain"
  /\ seqInitPc' = "done"
  /\ chainId' = id
  /\ UNCHANGED <<escrowVars, filterVars, lifeVars, peerVars, dashVars, linkVars, plVars>>
  /\ UNCHANGED <<hasProvider, address, connecting, walletError, providerRef,
                 isManuallyConnecting, initInFlight, initPc, connectsInFlight,
                 lastConnect, seqConnects>>

\* readChain of the mount effect rejected: only logged
readChainReject ==
  /\ seqInitPc = "chain"
  /\ seqInitPc' = "done"
  /\ UNCHANGED <<escrowVars, filterVars, lifeVars, peerVars, dashVars, linkVars, plVars>>
  /\ UNCHANGED <<hasProvider, address, chainId, connecting, walletError, providerRef,
                 isManuallyConnecting, initInFlight, initPc, connectsInFlight,
                 lastConnect, seqConnects>>

(***************************************************************************)
(* A second component using useEthereumWallet: the peer instance has its   *)
(* own useState cells and its own listeners on the same provider           *)
(***************************************************************************)
PeerInit ==
  /\ peerAddress = "" /\ peerChainId = ""
  /\ peerInitPc = IF hasProvider THEN "pending" ELSE "none"

\* the peer's mount-time read resolved (the peer is not connecting)
PeerInitReadResolve(accounts, id) ==
  /\ peerInitPc = "pending"
  /\ peerInitPc' = "done"
  /\ peerAddress' = IF Len(accounts) > 0 THEN firstAccount(accounts) ELSE peerAddress
  /\ peerChainId' = IF id # "" THEN id ELSE peerChainId
  /\ UNCHANGED <<walletVars, escrowVars, filterVars, lifeVars, seqVars, dashVars, linkVars, plVars>>

\* the provider emits accountsChanged: the handler of each instance runs
emitAccountsChanged(accounts) ==
  /\ hasProvider
  /\ address' = firstAccount(accounts)
  /\ peerAddress' = firstAccount(accounts)
  /\ lastConnect' = [set |-> FALSE, addr |-> "", chain |-> ""]
  /\ UNCHANGED <<escrowVars, filterVars, lifeVars, seqVars, dashVars, linkVars, plVars>>
  /\ UNCHANGED <<hasProvider, chainId, connecting, walletError, providerRef,
                 isManuallyConnecting, initInFlight, initPc, connectsInFlight,
                 peerChainId, peerInitPc>>

\* the provider emits chainChanged: the handler of each instance runs
emitChainChanged(id) ==
  /\ hasProvider
  /\ chainId' = id
  /\ peerChainId' = id
  /\ lastConnect' = [set |-> FALSE, addr |-> "", chain |-> ""]
  /\ UNCHANGED <<escrowVars, filterVars, lifeVars, seqVars, dashVars, linkVars, plVars>>
  /\ UNCHANGED <<hasProvider, address, connecting, walletError, providerRef,
                 isManuallyConnecting, initInFlight, initPc, connectsInFlight,
                 peerAddress, peerInitPc>>

(***************************************************************************)
(* DepositsDashboard: the deposit panel (the amount stays at its initial   *)
(* '0.10', which is valid)                                                 *)
(***************************************************************************)
ErrSendDefault == "Deposit failed or was rejected."
canDeposit == isConnected /\ providerRef
DepositButtonEnabled == canDeposit /\ ~sending

DashInit == sending = FALSE /\ sendError = "" /\ lastTx = "" /\ pendingSend = 0

\* Deposit: handleDeposit up to its await
dashHandleDeposit ==
  /\ DepositButtonEnabled
  /\ sendError' = ""
  /\ sending' = TRUE
  /\ lastTx' = ""
  /\ pendingSend' = pendingSend + 1
  /\ UNCHANGED <<walletVars, escrowVars, filterVars, lifeVars, peerVars, seqVars, linkVars, plVars>>

\* onDeposit resolved with { txHash: h }
SendResolve(h) ==
  /\ pendingSend > 0
  /\ pendingSend' = pendingSend - 1
  /\ lastTx' = h
  /\ sending' = FALSE
  /\ UNCHANGED <<walletVars, escrowVars, filterVars, lifeVars, peerVars, seqVars, linkVars, plVars>>
  /\ UNCHANGED sendError

\* a rejection handler without the finally block
SendRejectKeepsSending(msg) ==
  /\ pendingSend > 0
  /\ pendingSend' = pendingSend - 1
  /\ sendError' = IF msg # "" THEN msg ELSE ErrSendDefault
  /\ UNCHANGED <<walletVars, escrowVars, filterVars, lifeVars, peerVars, seqVars, linkVars, plVars>>
  /\ UNCHANGED <<lastTx, sending>>

\* onDeposit threw
SendReject(msg) ==
  /\ pendingSend > 0
  /\ pendingSend' = pendingSend - 1
  /\ sendError' = IF msg # "" THEN msg ELSE ErrSendDefault
  /\ sending' = FALSE
  /\ UNCHANGED <<walletVars, escrowVars, filterVars, lifeVars, peerVars, seqVars, linkVars, plVars>>
  /\ UNCHANGED lastTx

(***************************************************************************)
(* LinkAccountModal                                                        *)
(***************************************************************************)
ErrLinkDefault == "Unexpected error while linking account. Please try again."
MinTagLen == 6
MaxTagLen == 14
\* what the tag input can hold: empty, a valid tag typed in lower case with its
\* '#', a tag that is too short, a tag with characters outside the charset
LinkTags == {<<>>,
             <<"#", "p", "y", "l", "q", "g", "r">>,
             <<"P", "Y", "L">>,
             <<"A", "B", "C", "D", "E", "F">>}
\* what the token input can hold: empty, seven characters between blanks, eight
\* characters between blanks
LinkTokens == {<<>>,
               <<" ", "s", "e", "c", "r", "e", "t", "1", " ">>,
               <<" ", "s", "e", "c", "r", "e", "t", "1", "2", " ">>}
MinTokenLen == 8
TagCharset == {"0", "2", "8", "9", "P", "Y", "L", "Q", "G", "R", "J", "C", "U", "V"}

\* toUpperCase of one character
toUpperCase(c) == CASE c = "p" -> "P" [] c = "y" -> "Y" [] c = "l" -> "L"
                    [] c = "q" -> "Q" [] c = "g" -> "G" [] c = "r" -> "R"
                    [] OTHER -> c

\* raw.trim(): texts of the model carry blanks only at their ends
RECURSIVE trim(_)
trim(raw) ==
  IF raw # <<>> /\ Head(raw) = " " THEN trim(Tail(raw))
  ELSE IF raw # <<>> /\ raw[Len(raw)] = " " THEN trim(SubSeq(raw, 1, Len(raw) - 1))
  ELSE raw

\* raw.trim().toUpperCase().replace(/^#/, '')
normalized(raw) ==
  LET up == [i \in 1..Len(trim(raw)) |-> toUpperCase(trim(raw)[i])]
  IN IF up # <<>> /\ Head(up) = "#" THEN Tail(up) ELSE up

\* a validateTag that accepts every character
validateTagAnyCharset(raw) ==
  /\ raw # <<>>
  /\ Len(normalized(raw)) >= MinTagLen /\ Len(normalized(raw)) <= MaxTagLen

\* validateTag(raw).valid
validateTag(raw) ==
  /\ raw # <<>>
  /\ Len(normalized(raw)) >= MinTagLen /\ Len(normalized(raw)) <= MaxTagLen
  /\ Len(normalized(raw)) > 0
  /\ \A i \in 1..Len(normalized(raw)) : normalized(raw)[i] \in TagCharset

\* validateToken(raw).valid
validateToken(raw) == raw # <<>> /\ Len(trim(raw)) >= MinTokenLen

\* the validation of the active mode, as handleSubmit computes it
result == IF linkMode = "tag" THEN validateTag(linkTag) ELSE validateToken(linkToken)
\* the argument of onSubmit: result.tag in tag mode, result.token in token mode
SubmitArg == IF linkMode = "tag" THEN <<"#">> \o normalized(linkTag) ELSE trim(linkToken)

\* the canSubmit state, as its effect recomputes it after every render
canSubmit == touched /\ result /\ ~submitting

LinkInit ==
  /\ linkOpen = FALSE /\ linkTag = <<>> /\ touched = FALSE
  /\ linkMode = "tag" /\ linkToken = <<>>
  /\ submitting = FALSE /\ linkError = "" /\ pendingSubmit = 0

\* the effect that resets the modal when open turns false
ResetOnClose ==
  /\ linkMode' = "tag" /\ linkToken' = <<>>
  /\ linkTag' = <<>> /\ touched' = FALSE /\ submitting' = FALSE /\ linkError' = ""

\* App: the Link Account button
OpenLink ==
  /\ ~linkOpen
  /\ linkOpen' = TRUE
  /\ UNCHANGED <<walletVars, escrowVars, filterVars, lifeVars, peerVars, seqVars, dashVars, plVars>>
  /\ UNCHANGED <<linkTag, touched, submitting, linkError, linkMode, linkToken,
                 pendingSubmit>>

\* Cancel, the close button or the overlay: onClose, then the reset effect
CloseLink ==
  /\ linkOpen
  /\ linkOpen' = FALSE
  /\ ResetOnClose
  /\ UNCHANGED <<walletVars, escrowVars, filterVars, lifeVars, peerVars, seqVars, dashVars, plVars>>
  /\ UNCHANGED pendingSubmit

\* the mode tabs
SetMode(m) ==
  /\ linkOpen
  /\ linkMode' = m /\ touched' = FALSE /\ linkError' = ""
  /\ UNCHANGED <<walletVars, escrowVars, filterVars, lifeVars, peerVars, seqVars, dashVars, plVars>>
  /\ UNCHANGED <<linkOpen, linkTag, linkToken, submitting, pendingSubmit>>

\* the token input's onChange
SetToken(text) ==
  /\ linkOpen /\ linkMode = "token"
  /\ linkToken' = text
  /\ UNCHANGED <<walletVars, escrowVars, filterVars, lifeVars, peerVars, seqVars, dashVars, plVars>>
  /\ UNCHANGED <<linkOpen, linkTag, linkMode, touched, submitting, linkError, pendingSubmit>>

\* the token input's onBlur
BlurToken ==
  /\ linkOpen /\ linkMode = "token"
  /\ touched' = TRUE
  /\ UNCHANGED <<walletVars, escrowVars, filterVars, lifeVars, peerVars, seqVars, dashVars, plVars>>
  /\ UNCHANGED <<linkOpen, linkTag, linkMode, linkToken, submitting, linkError, pendingSubmit>>

\* the tag input's onChange
SetTag(text) ==
  /\ linkOpen /\ linkMode = "tag"
  /\ linkTag' = text
  /\ UNCHANGED <<walletVars, escrowVars, filterVars, lifeVars, peerVars, seqVars, dashVars, plVars>>
  /\ UNCHANGED <<linkOpen, touched, submitting, linkError, linkMode, linkToken,
                 pendingSubmit>>

\* the tag input's onBlur
BlurTag ==
  /\ linkOpen /\ linkMode = "tag"
  /\ touched' = TRUE
  /\ UNCHANGED <<walletVars, escrowVars, filterVars, lifeVars, peerVars, seqVars, dashVars, plVars>>
  /\ UNCHANGED <<linkOpen, linkTag, submitting, linkError, linkMode, linkToken,
                 pendingSubmit>>

\* the form is submitted (the submit button is enabled): handleSubmit up to its await
handleSubmit ==
  /\ linkOpen /\ canSubmit
  /\ pendingSubmit < MaxInFlight
  /\ touched' = TRUE
  /\ IF result
       THEN /\ linkError' = ""
            /\ submitting' = TRUE
            /\ pendingSubmit' = pendingSubmit + 1
       ELSE /\ linkError' = "Please correct the input."
            /\ UNCHANGED <<submitting, pendingSubmit>>
  /\ UNCHANGED <<walletVars, escrowVars, filterVars, lifeVars, peerVars, seqVars, dashVars, plVars>>
  /\ UNCHANGED <<linkOpen, linkTag, linkMode, linkToken>>

\* onSubmit resolved: onClose() and the finally block
SubmitResolve ==
  /\ pendingSubmit > 0
  /\ pendingSubmit' = pendingSubmit - 1
  /\ linkOpen' = FALSE
  /\ IF linkOpen THEN ResetOnClose
     ELSE submitting' = FALSE /\ UNCHANGED <<linkTag, touched, linkError, linkMode, linkToken>>
  /\ UNCHANGED <<walletVars, escrowVars, filterVars, lifeVars, peerVars, seqVars, dashVars, plVars>>

\* onSubmit threw
SubmitReject(msg) ==
  /\ pendingSubmit > 0
  /\ pendingSubmit' = pendingSubmit - 1
  /\ linkError' = IF msg # "" THEN msg ELSE ErrLinkDefault
  /\ submitting' = FALSE
  /\ UNCHANGED <<walletVars, escrowVars, filterVars, lifeVars, peerVars, seqVars, dashVars, plVars>>
  /\ UNCHANGED <<linkOpen, linkTag, touched, linkMode, linkToken>>

(***************************************************************************)
(* ProfileList: the handlers it passes to the EscrowModal as onInitiate and *)
(* onDeposit.  One handleDeposit call is followed at a time.               *)
(***************************************************************************)
MatchIds == {0, 7}                 \* apiCreateMatch answers without an id, or with one
ErrNotConnected == "Wallet not connected. Please connect your wallet."
NoDepositCall == [stage |-> "none", matchId |-> 0, tx |-> "", warned |-> FALSE]
plFrame == <<walletVars, filterVars, lifeVars, peerVars, seqVars, dashVars, linkVars>>

ProfileListInit == matchId = 0 /\ depositCall = NoDepositCall

\* closeModal: setModalOpen(false), setSelected(null), setMatchId(null)
closeModal ==
  /\ open
  /\ open' = FALSE
  /\ defaultWager' = 0 /\ opponentWager' = 0
  /\ completions' = <<>>
  /\ matchId' = 0
  /\ UNCHANGED <<step, wager, error, txHash, pendingInitiate, pendingDeposit>>
  /\ UNCHANGED <<plFrame, depositCall>>

\* handleInitiate: apiCreateMatch resolved, setMatchId(mid); the modal goes on
handleInitiate(c, mid) ==
  /\ BagIn(c, pendingInitiate)
  /\ pendingInitiate' = BagRemove(pendingInitiate, c)
  /\ matchId' = mid
  /\ step' = "confirm"
  /\ UNCHANGED <<open, defaultWager, opponentWager, wager, error, txHash,
                 pendingDeposit, completions>>
  /\ UNCHANGED <<plFrame, depositCall>>

\* what the modal does when its onDeposit call c resolved with { txHash: h }
onDepositResolved(c, h) ==
  /\ BagIn(c, pendingDeposit)
  /\ pendingDeposit' = BagRemove(pendingDeposit, c)
  /\ txHash' = IF h # "" THEN h ELSE MockTxHash
  /\ step' = "success"
  /\ completions' = Append(completions, [status |-> "success", txHash |-> c.tx])
  /\ UNCHANGED <<open, defaultWager, opponentWager, wager, error, pendingInitiate>>

\* what the modal does when its onDeposit call c threw
onDepositThrew(c, msg) ==
  /\ BagIn(c, pendingDeposit)
  /\ pendingDeposit' = BagRemove(pendingDeposit, c)
  /\ step' = "failure"
  /\ error' = IF msg # "" THEN msg ELSE ErrDepositDefault
  /\ completions' = Append(completions, [status |-> "failure", txHash |-> ""])
  /\ UNCHANGED <<open, defaultWager, opponentWager, wager, txHash, pendingInitiate>>

\* Confirm Deposit: the modal's confirmDeposit calls handleDeposit, which checks
\* the wallet and calls sendEscrowDeposit
handleDeposit ==
  /\ ConfirmOffered
  /\ pendingDeposit = EmptyBag /\ depositCall.stage = "none"
  /\ Len(completions) < MaxCompletions
  /\ error' = ""
  /\ step' = "pending"
  /\ pendingDeposit' = BagAdd(pendingDeposit, [stale |-> FALSE, tx |-> txHash])
  /\ depositCall' = [stage |-> IF isConnected /\ providerRef THEN "send" ELSE "nowallet",
                     matchId |-> matchId, tx |-> "", warned |-> FALSE]
  /\ UNCHANGED <<open, defaultWager, opponentWager, wager, txHash,
                 pendingInitiate, completions>>
  /\ UNCHANGED <<plFrame, matchId>>

\* handleDeposit threw 'Wallet not connected'
handleDepositNotConnected(c) ==
  /\ depositCall.stage = "nowallet"
  /\ onDepositThrew(c, ErrNotConnected)
  /\ depositCall' = [depositCall EXCEPT !.stage = "none"]
  /\ UNCHANGED <<plFrame, matchId>>

\* sendEscrowDeposit threw: handleDeposit throws
sendEscrowDepositReject(c, msg) ==
  /\ depositCall.stage = "send"
  /\ onDepositThrew(c, msg)
  /\ depositCall' = [depositCall EXCEPT !.stage = "none"]
  /\ UNCHANGED <<plFrame, matchId>>

\* sendEscrowDeposit resolved and there is a match and a txHash to confirm:
\* handleDeposit calls apiConfirmDeposit
sendEscrowDepositResolve(h) ==
  /\ depositCall.stage = "send"
  /\ depositCall.matchId # 0 /\ h # ""
  /\ depositCall' = [depositCall EXCEPT !.stage = "confirm", !.tx = h]
  /\ UNCHANGED <<plFrame, escrowVars, matchId>>

\* sendEscrowDeposit resolved and nothing is confirmed with the backend
sendEscrowDepositResolveOnly(c, h) ==
  /\ depositCall.stage = "send"
  /\ ~(depositCall.matchId # 0 /\ h # "")
  /\ onDepositResolved(c, h)
  /\ depositCall' = [depositCall EXCEPT !.stage = "none", !.tx = h]
  /\ UNCHANGED <<plFrame, matchId>>

\* apiConfirmDeposit resolved
apiConfirmDepositResolve(c) ==
  /\ depositCall.stage = "confirm"
  /\ onDepositResolved(c, depositCall.tx)
  /\ depositCall' = [depositCall EXCEPT !.stage = "none"]
  /\ UNCHANGED <<plFrame, matchId>>

\* a handleDeposit that lets the backend's error through
apiConfirmDepositRethrows(c, msg) ==
  /\ depositCall.stage = "confirm"
  /\ onDepositThrew(c, msg)
  /\ depositCall' = [depositCall EXCEPT !.stage = "none"]
  /\ UNCHANGED <<plFrame, matchId>>

\* apiConfirmDeposit threw: the catch logs a warning
apiConfirmDepositReject(c, msg) ==
  /\ depositCall.stage = "confirm"
  /\ onDepositResolved(c, depositCall.tx)
  /\ depositCall' = [depositCall EXCEPT !.stage = "none", !.warned = TRUE]
  /\ UNCHANGED <<plFrame, matchId>>

(***************************************************************************)
(* Component lifetimes: the wallet hook's listeners and the profile fetches *)
(* of App and ProfileList.  A state variable holds what its setter was last *)
(* called with.                                                            *)
(***************************************************************************)
FetchOwners == {"App", "ProfileList"}
ErrLoadDefault == "Failed to load profiles."
FetchErrors == {"Network error", ""}       \* e.message of a rejection, "" when absent

\* the profiles effect has run: setLoading(true), setError(''), apiGetProfiles() called
FetchInit ==
  /\ fetchMounted = [c \in FetchOwners |-> TRUE]
  /\ fetchPc = [c \in FetchOwners |-> "pending"]
  /\ loading = [c \in FetchOwners |-> TRUE]
  /\ loadError = [c \in FetchOwners |-> ""]
  /\ loaded = [c \in FetchOwners |-> FALSE]

\* the effect's cleanup: mounted = false
FetchCleanup(c) ==
  /\ fetchMounted[c]
  /\ fetchMounted' = [fetchMounted EXCEPT ![c] = FALSE]
  /\ UNCHANGED <<walletVars, escrowVars, filterVars, peerVars, seqVars, dashVars, linkVars, plVars>>
  /\ UNCHANGED <<mounted, fetchPc, loading, loadError, loaded>>

\* apiGetProfiles() resolved
FetchResolve(c) ==
  /\ fetchPc[c] = "pending"
  /\ fetchPc' = [fetchPc EXCEPT ![c] = "done"]
  /\ IF fetchMounted[c]
       THEN /\ loaded' = [loaded EXCEPT ![c] = TRUE]
            /\ loading' = [loading EXCEPT ![c] = FALSE]
       ELSE UNCHANGED <<loaded, loading>>
  /\ UNCHANGED <<walletVars, escrowVars, filterVars, peerVars, seqVars, dashVars, linkVars, plVars>>
  /\ UNCHANGED <<mounted, fetchMounted, loadError>>

\* apiGetProfiles() rejected
FetchReject(c, msg) ==
  /\ fetchPc[c] = "pending"
  /\ fetchPc' = [fetchPc EXCEPT ![c] = "done"]
  /\ loadError' = [loadError EXCEPT ![c] = IF msg # "" THEN msg ELSE ErrLoadDefault]
  /\ loading' = [loading EXCEPT ![c] = IF fetchMounted[c] THEN FALSE ELSE loading[c]]
  /\ UNCHANGED <<walletVars, escrowVars, filterVars, peerVars, seqVars, dashVars, linkVars, plVars>>
  /\ UNCHANGED <<mounted, fetchMounted, loaded>>

\* the owner of the wallet hook unmounts: the effect's cleanup removes both listeners
Unmount ==
  /\ mounted
  /\ mounted' = FALSE
  /\ UNCHANGED <<walletVars, escrowVars, filterVars, peerVars, seqVars, dashVars, linkVars, plVars>>
  /\ UNCHANGED <<fetchMounted, fetchPc, loading, loadError, loaded>>

\* an event delivered to every listener, wherever the hook stands
accountsChangedEventAlways(accounts) == handleAccountsChanged(accounts)

\* the provider emits accountsChanged / chainChanged: delivered to the listeners
\* registered by eth.on and not yet removed
accountsChangedEvent(accounts) == mounted /\ handleAccountsChanged(accounts)
chainChangedEvent(id) == mounted /\ handleChainChanged(id)

LifeIdle ==
  /\ mounted = TRUE
  /\ fetchMounted = [c \in FetchOwners |-> TRUE]
  /\ fetchPc = [c \in FetchOwners |-> "done"]
  /\ loading = [c \in FetchOwners |-> FALSE]
  /\ loadError = [c \in FetchOwners |-> ""]
  /\ loaded = [c \in FetchOwners |-> TRUE]
PeerIdle == peerAddress = "" /\ peerChainId = "" /\ peerInitPc = "done"
SeqIdle == seqConnects = EmptyBag /\ seqInitPc = "done"
DashIdle == DashInit
LinkIdle == LinkInit
PlIdle == ProfileListInit
RestIdle == LifeIdle /\ PeerIdle /\ SeqIdle /\ DashIdle /\ LinkIdle /\ PlIdle

\* a subsystem left alone by a specification rests in one of its initial states
FilterIdle == FilterInit /\ globalMin = 1 /\ globalMax = 500 /\ controlled
                /\ value = Pair(Num(globalMin), Num(globalMax))
WalletIdle == WalletInit /\ hasProvider

\* the state after the modal's (or the hook's) first render, the filter at rest
Init == WalletInit /\ EscrowInit /\ FilterIdle /\ RestIdle
\* the state after the filter's first render, the wallet and the modal at rest
FilterSpecInit == WalletIdle /\ EscrowInit /\ FilterInit /\ RestIdle

\* the wallet hook alone
WalletNext ==
  \/ ConnectBegin
  \/ \E accounts \in AccountLists, id \in ChainReplies : ConnectResolve(accounts, id)
  \/ \E e \in ProviderErrors : ConnectReject(e)
  \/ Disconnect
  \/ \E accounts \in AccountLists : handleAccountsChanged(accounts)
  \/ \E id \in ChainIds : handleChainChanged(id)
  \/ \E accounts \in AccountLists, id \in ChainReplies : InitReadResolve(accounts, id)
  \/ InitReadReject
WalletSpec == Init /\ [][WalletNext]_vars

\* the escrow modal with the wallet hook instance it owns; the provider of this
\* specification has one account and one chain, and its user clicks Connect Wallet
\* only when no connect() is in flight (overlapping connects: WalletSpec)
EscrowNext ==
  \/ \E p \in WagerProps : OpenModal(p[1], p[2])
  \/ CloseModal
  \/ \E text \in WagerTexts : SetWager(text)
  \/ beginFlow
  \/ \E c \in BagToSet(pendingInitiate) : InitiateResolve(c)
  \/ \E c \in BagToSet(pendingInitiate), msg \in HandlerErrors : InitiateReject(c, msg)
  \/ confirmDeposit
  \/ \E c \in BagToSet(pendingDeposit), h \in DepositReplies : DepositResolve(c, h)
  \/ \E c \in BagToSet(pendingDeposit), msg \in HandlerErrors : DepositReject(c, msg)
  \/ restart
  \/ connectsInFlight = 0 /\ ConnectClick
  \/ ConnectResolve(<<"0xaaa">>, "0x1")
  \/ handleAccountsChanged(<<>>)
EscrowSpec == Init /\ [][EscrowNext]_vars

\* the escrow modal driven by a user who waits for every call to settle before
\* the next click: no overlapping calls, no call left behind by a close
NoCallOutstanding == pendingInitiate = EmptyBag /\ pendingDeposit = EmptyBag
EscrowSerialNext ==
  \/ \E p \in WagerProps : OpenModal(p[1], p[2])
  \/ NoCallOutstanding /\ CloseModal
  \/ \E text \in WagerTexts : SetWager(text)
  \/ NoCallOutstanding /\ beginFlow
  \/ \E c \in BagToSet(pendingInitiate) : InitiateResolve(c)
  \/ \E c \in BagToSet(pendingInitiate), msg \in HandlerErrors : InitiateReject(c, msg)
  \/ confirmDeposit
  \/ \E c \in BagToSet(pendingDeposit), h \in DepositReplies : DepositResolve(c, h)
  \/ \E c \in BagToSet(pendingDeposit), msg \in HandlerErrors : DepositReject(c, msg)
  \/ restart
  \/ connectsInFlight = 0 /\ ConnectClick
  \/ ConnectResolve(<<"0xaaa">>, "0x1")
  \/ handleAccountsChanged(<<>>)
EscrowSerialSpec == Init /\ [][EscrowSerialNext]_vars

\* the wager filter
FilterNext ==
  \/ \E raw \in FilterTexts : handleMinChange(Str(raw))
  \/ \E raw \in FilterTexts : handleMaxChange(Str(raw))
  \/ handleBlurCoerceAndEmit
  \/ \E p \in presets : applyPreset(p)
FilterSpec == FilterSpecInit /\ [][FilterNext]_vars

\* the wallet hook and the two profile fetches over their owners' lifetimes; the
\* provider of this specification answers with one account and one chain, its
\* events carry another, and connect() is not called while one is in flight
LifecycleInit ==
  /\ WalletInit /\ EscrowInit /\ FilterIdle
  /\ mounted = TRUE /\ FetchInit
  /\ PeerIdle /\ SeqIdle /\ DashIdle /\ LinkIdle /\ PlIdle
LifecycleNext ==
  \/ mounted /\ connectsInFlight = 0 /\ ConnectBegin
  \/ ConnectResolve(<<"0xaaa">>, "0x1")
  \/ \E e \in ProviderErrors : ConnectReject(e)
  \/ mounted /\ Disconnect
  \/ \E accounts \in {<<>>, <<"0xbbb">>} : accountsChangedEvent(accounts)
  \/ chainChangedEvent("0x5")
  \/ InitReadResolve(<<"0xaaa">>, "0x1")
  \/ InitReadReject
  \/ Unmount
  \/ \E c \in FetchOwners : FetchCleanup(c)
  \/ \E c \in FetchOwners : FetchResolve(c)
  \/ \E c \in FetchOwners, msg \in FetchErrors : FetchReject(c, msg)
LifecycleSpec == LifecycleInit /\ [][LifecycleNext]_vars

\* the sequential revision of the wallet hook alone
SeqWalletSpecInit ==
  /\ SeqWalletInit /\ EscrowInit /\ FilterIdle
  /\ LifeIdle /\ PeerIdle /\ DashIdle /\ LinkIdle /\ PlIdle
SeqWalletNext ==
  \/ SeqConnectBegin
  \/ \E f \in BagToSet(seqConnects), accounts \in AccountLists :
       SeqAccountsResolve(f, accounts)
  \/ \E f \in BagToSet(seqConnects), id \in ChainIds : SeqChainResolve(f, id)
  \/ \E f \in BagToSet(seqConnects), e \in ProviderErrors : SeqConnectReject(f, e)
  \/ Disconnect
  \/ \E accounts \in AccountLists : handleAccountsChanged(accounts)
  \/ \E id \in ChainIds : handleChainChanged(id)
  \/ \E accounts \in AccountLists : readAccounts(accounts)
  \/ \E id \in ChainIds : readChain(id)
  \/ readChainReject
SeqWalletSpec == SeqWalletSpecInit /\ [][SeqWalletNext]_vars

\* two components with one hook instance each on one provider; nobody has
\* authorised an account yet when they mount, the user then approves the first
\* account, and connect() / disconnect() are called through the first instance
TwoHooksInit ==
  /\ WalletInit /\ EscrowInit /\ FilterIdle
  /\ PeerInit
  /\ LifeIdle /\ SeqIdle /\ DashIdle /\ LinkIdle /\ PlIdle
TwoHooksNext ==
  \/ connectsInFlight = 0 /\ ConnectBegin
  \/ ConnectResolve(<<"0xaaa">>, "0x1")
  \/ \E e \in ProviderErrors : ConnectReject(e)
  \/ Disconnect
  \/ InitReadResolve(<<>>, "0x1")
  \/ PeerInitReadResolve(<<>>, "0x1")
  \/ \E accounts \in AccountLists : emitAccountsChanged(accounts)
  \/ \E id \in ChainIds : emitChainChanged(id)
TwoHooksSpec == TwoHooksInit /\ [][TwoHooksNext]_vars

\* every asynchronous operation with a busy state, driven by a user who waits
\* for a call to settle before the next click in the same component
RecoveryInit ==
  /\ WalletIdle /\ EscrowInit /\ FilterIdle
  /\ LifeIdle /\ PeerIdle /\ SeqIdle
  /\ DashInit /\ LinkInit /\ PlIdle
RecoveryNext ==
  \/ connectsInFlight = 0 /\ ~isConnected /\ ConnectBegin
  \/ ConnectResolve(<<"0xaaa">>, "0x1")
  \/ \E e \in ProviderErrors : ConnectReject(e)
  \/ InitReadReject
  \/ OpenModal(25, 75)
  \/ NoCallOutstanding /\ CloseModal
  \/ NoCallOutstanding /\ beginFlow
  \/ \E c \in BagToSet(pendingInitiate) : InitiateResolve(c)
  \/ \E c \in BagToSet(pendingInitiate), msg \in HandlerErrors : InitiateReject(c, msg)
  \/ confirmDeposit
  \/ \E c \in BagToSet(pendingDeposit) : DepositResolve(c, "0xabc123")
  \/ \E c \in BagToSet(pendingDeposit), msg \in HandlerErrors : DepositReject(c, msg)
  \/ restart
  \/ dashHandleDeposit
  \/ SendResolve("0xabc123")
  \/ \E msg \in HandlerErrors : SendReject(msg)
  \/ OpenLink
  \/ CloseLink
  \/ \E text \in LinkTags : SetTag(text)
  \/ BlurTag
  \/ handleSubmit
  \/ SubmitResolve
  \/ \E msg \in HandlerErrors : SubmitReject(msg)
RecoverySpec == RecoveryInit /\ [][RecoveryNext]_vars

\* ProfileList with its EscrowModal: one opponent, a user who waits for the
\* modal's call to settle before the next click in it
ProfileListSpecInit == WalletIdle /\ EscrowInit /\ FilterIdle /\ RestIdle
ProfileListNext ==
  \/ OpenModal(25, 75)
  \/ closeModal
  \/ NoCallOutstanding /\ beginFlow
  \/ \E c \in BagToSet(pendingInitiate), mid \in MatchIds : handleInitiate(c, mid)
  \/ \E c \in BagToSet(pendingInitiate), msg \in HandlerErrors : InitiateReject(c, msg)
  \/ handleDeposit
  \/ \E c \in BagToSet(pendingDeposit) : handleDepositNotConnected(c)
  \/ \E h \in DepositReplies : sendEscrowDepositResolve(h)
  \/ \E c \in BagToSet(pendingDeposit), h \in DepositReplies :
         sendEscrowDepositResolveOnly(c, h)
  \/ \E c \in BagToSet(pendingDeposit), msg \in HandlerErrors :
         sendEscrowDepositReject(c, msg)
  \/ \E c \in BagToSet(pendingDeposit) : apiConfirmDepositResolve(c)
  \/ \E c \in BagToSet(pendingDeposit), msg \in HandlerErrors :
         apiConfirmDepositReject(c, msg)
  \/ restart
  \/ connectsInFlight = 0 /\ ConnectClick
  \/ ConnectResolve(<<"0xaaa">>, "0x1")
  \/ InitReadResolve(<<"0xaaa">>, "0x1")
  \/ Disconnect
ProfileListSpec == ProfileListSpecInit /\ [][ProfileListNext]_vars

\* the link modal alone, in both modes
LinkSpecInit == WalletIdle /\ EscrowInit /\ FilterIdle /\ RestIdle
LinkNext ==
  \/ OpenLink
  \/ CloseLink
  \/ \E m \in {"tag", "token"} : SetMode(m)
  \/ \E text \in LinkTags : SetTag(text)
  \/ BlurTag
  \/ \E text \in LinkTokens : SetToken(text)
  \/ BlurToken
  \/ handleSubmit
  \/ SubmitResolve
  \/ \E msg \in HandlerErrors : SubmitReject(msg)
LinkSpec == LinkSpecInit /\ [][LinkNext]_vars

(***************************************************************************)
(* Properties                                                              *)
(***************************************************************************)
InitiateStarted == BagCardinality(pendingInitiate') > BagCardinality(pendingInitiate)
InitiateSettled == BagCardinality(pendingInitiate') < BagCardinality(pendingInitiate)
DepositStarted == BagCardinality(pendingDeposit') > BagCardinality(pendingDeposit)
DepositSettled == BagCardinality(pendingDeposit') < BagCardinality(pendingDeposit)

\* C1: within one opened session onComplete is invoked at most once, and only
\* with status success or failure.
C1_OnCompleteAtMostOncePerSession ==
  open => /\ Len(completions) <= 1
          /\ \A i \in 1..Len(completions) : completions[i].status \in {"success", "failure"}

\* C2: once the mount-time read and every connect() have settled, address and
\* chainId are what the provider returned to the last connect() that resolved
\* with an account (no disconnect or provider event having intervened).
C2_ConnectResultWins ==
  (initPc = "done" /\ connectsInFlight = 0 /\ lastConnect.set /\ lastConnect.addr # "")
    => (address = lastConnect.addr /\ chainId = lastConnect.chain)

\* C3: a mount-time read that resolves while a connect() is still in flight
\* changes neither address nor chainId.
C3_PassiveReadDiscardedWhileConnecting ==
  [][(initPc = "pending" /\ initPc' = "done" /\ connectsInFlight > 0)
       => (address' = address /\ chainId' = chainId)]_vars

InBoundsOrdered(p) ==
  /\ p.min.k = "num" /\ p.max.k = "num"
  /\ globalMin <= p.min.n /\ p.min.n <= p.max.n /\ p.max.n <= globalMax
FilterEditOrBlur ==
  \/ \E raw \in FilterTexts : handleMinChange(Str(raw))
  \/ \E raw \in FilterTexts : handleMaxChange(Str(raw))
  \/ handleBlurCoerceAndEmit

\* C4: every pair a min edit, a max edit or a blur passes to onChange, and the
\* local pair after every blur, satisfies globalMin <= min <= max <= globalMax.
C4_EditsAndBlursStayOrderedInBounds ==
  [][/\ (FilterEditOrBlur /\ emitted' # emitted) => InBoundsOrdered(emitted'.pair)
     /\ handleBlurCoerceAndEmit => InBoundsOrdered(local')]_vars
\* a min typed above the range was clamped to globalMax, max snapped to it, and
\* the pair was emitted
C4_Witness ==
  /\ emitted.n = 1
  /\ emitted.pair = Pair(Num(globalMax), Num(globalMax))
  /\ local = emitted.pair
  /\ value # Pair(Num(globalMin), Num(globalMax))

\* C5: whenever open goes from false to true the state becomes step = review,
\* error empty, txHash empty and wager = defaultWager, else opponent.wagerEth,
\* else 0.1.
C5_ReopenResets ==
  [][(~open /\ open')
       => /\ step' = "review" /\ error' = "" /\ txHash' = ""
          /\ wager' = IF defaultWager' # 0 THEN Num(defaultWager')
                      ELSE IF opponentWager' # 0 THEN Num(opponentWager')
                      ELSE Num(DefaultWagerFallback)]_vars
\* reopened (a deposit of the earlier session is still outstanding) with the
\* wager taken from the opponent
C5_Witness ==
  /\ open /\ step = "review" /\ error = "" /\ txHash = ""
  /\ defaultWager = 0 /\ opponentWager # 0 /\ wager = Num(opponentWager)
  /\ \E c \in BagToSet(pendingDeposit) : c.stale

\* C6: never two outstanding onInitiate calls, and never two outstanding
\* onDeposit calls, in one modal instance.
C6_OneCallInFlight ==
  /\ BagCardinality(pendingInitiate) <= 1
  /\ BagCardinality(pendingDeposit) <= 1

\* C7: onInitiate and onDeposit are only invoked with a numeric, strictly
\* positive wager.
C7_CallsOnlyWithPositiveWager ==
  [][(InitiateStarted \/ DepositStarted) => (WagerArg.k = "num" /\ WagerArg.n > 0)]_vars

\* C8 as stated: while the wallet is disconnected in step review, onInitiate is
\* not called and the step stays review; a connect activation starts one connect().
C8_DisconnectedReviewStays ==
  [][(open /\ step = "review" /\ ~isConnected)
       => /\ ~InitiateStarted
          /\ step' = "review"
          /\ connectsInFlight' <= connectsInFlight + 1]_vars
\* C8 as amended: while the wallet is disconnected in step review, onInitiate is
\* not called and no user action changes the step: it leaves review only when an
\* onInitiate or onDeposit call started earlier settles; a connect activation
\* starts exactly one connect().
C8_DisconnectedReviewOffersOnlyConnect ==
  [][(open /\ step = "review" /\ ~isConnected)
       => /\ ~InitiateStarted
          /\ ~DepositStarted
          /\ (step' = "review" \/ InitiateSettled \/ DepositSettled)
          /\ ConnectClick => IF hasProvider
                               THEN connectsInFlight' = connectsInFlight + 1
                               ELSE connectsInFlight' = connectsInFlight
                                    /\ walletError' = ErrNoWallet]_vars
\* a connect() started from the review step of a disconnected wallet is in flight
C8_Witness ==
  /\ open /\ step = "review" /\ ~isConnected
  /\ connectsInFlight = 1 /\ connecting
  /\ pendingInitiate = EmptyBag

\* C9: onDeposit is started only by a step from confirm to pending; when it
\* resolves with {txHash: h} the modal records h, enters success and reports
\* success; success is entered only by a resolving deposit and confirm only by a
\* resolving onInitiate that was started in review.
C9_ConfirmPendingSuccess ==
  [][/\ DepositStarted => (step = "confirm" /\ step' = "pending")
     /\ \A h \in TxHashes : \A c \in BagToSet(pendingDeposit) :
          DepositResolve(c, h)
            => /\ txHash' = h /\ step' = "success"
               /\ Len(completions') = Len(completions) + 1
               /\ completions'[Len(completions')].status = "success"
     /\ (step' = "success" /\ step # "success") => DepositSettled
     /\ (step' = "pending" /\ step # "pending") => DepositStarted
     /\ (step' = "confirm" /\ step # "confirm") => InitiateSettled
     /\ InitiateStarted => (step = "review" /\ step' = "review")]_vars
\* the deposit resolved: success, the hash recorded, one success reported
C9_Witness ==
  /\ open /\ step = "success" /\ txHash = "0xabc123"
  /\ Len(completions) = 1 /\ completions[1].status = "success"
  /\ pendingDeposit = EmptyBag /\ pendingInitiate = EmptyBag

\* C10: when onDeposit rejects during pending the modal enters failure with a
\* non-empty error, an empty txHash, and reports failure.
C10_RejectedDepositFails ==
  [][\A msg \in HandlerErrors : \A c \in BagToSet(pendingDeposit) :
       (step = "pending" /\ DepositReject(c, msg))
         => /\ step' = "failure" /\ error' # "" /\ txHash' = ""
            /\ completions'[Len(completions')].status = "failure"]_vars

\* C11: onInitiate is called (with Number(wager)) only by Continue in review;
\* when the call resolves the step becomes confirm; when it throws the step is
\* review, the error is a non-empty message, and neither onDeposit nor onComplete
\* is invoked.
C11_InitiateResolvesOrStaysReview ==
  [][/\ InitiateStarted => (open /\ step = "review")
     /\ \A c \in BagToSet(pendingInitiate) : InitiateResolve(c) => step' = "confirm"
     /\ \A c \in BagToSet(pendingInitiate) : \A msg \in HandlerErrors :
          InitiateReject(c, msg)
            => /\ step' = "review"
               /\ error' # ""
               /\ ~DepositStarted
               /\ completions' = completions]_vars

\* C12: Retry sets step to review, clears error and txHash and keeps the wager;
\* while the modal stays open the step returns to review only from failure, and
\* it never leaves success.
C12_RetryOnlyWayBackSuccessTerminal ==
  [][/\ restart => (step' = "review" /\ error' = "" /\ txHash' = "" /\ wager' = wager)
     /\ (open /\ open' /\ step # "review" /\ step' = "review") => step = "failure"
     /\ (open /\ open' /\ step = "success") => step' = "success"]_vars

\* C13: when a provider request of connect() rejects with code 4001, connect()
\* ends with error 'Connection request rejected.', connecting false, and address
\* and chainId untouched, so a disconnected wallet stays disconnected.
C13_RejectedConnectKeepsState ==
  [][\A e \in ProviderErrors :
       (e.code = 4001 /\ ConnectReject(e))
         => /\ walletError' = ErrRejected
            /\ connecting' = FALSE
            /\ address' = address /\ chainId' = chainId
            /\ (~isConnected => address' = "")]_vars
\* the only connect() of a disconnected wallet was rejected by the user
C13_Witness ==
  /\ hasProvider /\ walletError = ErrRejected /\ ~connecting
  /\ ~isConnected /\ chainId = "" /\ connectsInFlight = 0 /\ initPc = "done"

\* C15: disconnect() empties address, chainId and error, drops the provider and
\* signer, and issues no provider request (no connect flow or read is started).
C15_DisconnectClearsLocally ==
  [][Disconnect
       => /\ address' = "" /\ chainId' = "" /\ walletError' = ""
          /\ ~isConnected'
          /\ ~providerRef'
          /\ connectsInFlight' = connectsInFlight
          /\ initPc' = initPc]_vars
\* disconnect() ran on a wallet whose provider is injected
C15_Witness ==
  /\ hasProvider /\ ~providerRef
  /\ address = "" /\ chainId = "" /\ walletError = ""
  /\ connectsInFlight = 0 /\ initPc = "done"

\* C20: onChange is only called with a pair of two finite numbers that differs
\* from the pair last emitted (from the supplied value when nothing was emitted
\* yet); an edit whose text does not parse emits nothing and leaves the other
\* bound as it is.
C20_EmitsOnlyValidChangedPairs ==
  [][/\ (emitted' # emitted)
          => /\ IsFiniteNumber(emitted'.pair.min) /\ IsFiniteNumber(emitted'.pair.max)
             /\ emitted'.pair # emitted.pair
             /\ emitted'.pair # lastEmittedRef
     /\ \A raw \in FilterTexts :
          (IsNull(ParseFloat(Str(raw))) /\ handleMinChange(Str(raw)))
            => (emitted' = emitted /\ local'.max = local.max /\ local'.min = Str(raw))
     /\ \A raw \in FilterTexts :
          (IsNull(ParseFloat(Str(raw))) /\ handleMaxChange(Str(raw)))
            => (emitted' = emitted /\ local'.min = local.min /\ local'.max = Str(raw))]_vars
\* after an emission of a narrowed pair the min field was emptied: nothing more
\* was emitted and max kept its value
C20_Witness ==
  /\ emitted.n = 1 /\ lastEmittedRef = emitted.pair
  /\ emitted.pair # Pair(Num(globalMin), Num(globalMax))
  /\ local.min = Str(<<>>) /\ local.max = emitted.pair.max

\* C16: while the hook is mounted an accountsChanged event sets address to the
\* first account of the list, or to empty for an empty list, and a chainChanged
\* event sets chainId to its id; after unmount only the completion of a connect()
\* or of the mount-time read can still touch the hook's state: no event does.
C16_EventsOnlyWhileMounted ==
  [][/\ \A accounts \in AccountLists :
          accountsChangedEvent(accounts)
            => address' = IF accounts = <<>> THEN "" ELSE getAddress(Head(accounts))
     /\ \A id \in ChainIds : chainChangedEvent(id) => chainId' = id
     /\ (~mounted /\ connectsInFlight' = connectsInFlight /\ initPc' = initPc)
          => UNCHANGED <<address, chainId, connecting, walletError>>]_vars
\* events set the second account and the second chain (no connect() ever
\* resolved, the mount-time read is still pending), then the owner unmounted
C16_Witness ==
  /\ ~mounted /\ address = "0xBbB" /\ chainId = "0x5"
  /\ initPc = "pending" /\ connectsInFlight = 0 /\ ~connecting

\* C18: after its owner has unmounted no state of a component is set by a late
\* completion: not by the profile fetch of App or ProfileList, and not by the
\* wallet hook's connect() or mount-time read.
C18_NoUpdateAfterUnmount ==
  [][/\ \A c \in FetchOwners :
          ~fetchMounted[c]
            => (loading'[c] = loading[c] /\ loadError'[c] = loadError[c]
                /\ loaded'[c] = loaded[c])
     /\ ~mounted => UNCHANGED <<address, chainId, connecting, walletError>>]_vars

\* C14: a connect() sets address and chainId in one step: there is no state in
\* which address holds the account returned to a connect() that is still waiting
\* for its chain id, and a connect() whose request fails has changed neither
\* field.  Stated for both revisions of connect().
C14_ConnectSetsAddressAndChainTogether ==
  /\ [](\A f \in BagToSet(seqConnects) :
          (f.stage = "chain" /\ f.addr # "") => ~(address = f.addr /\ chainId = ""))
  /\ [][/\ \A accounts \in AccountLists : \A id \in ChainReplies :
             ConnectResolve(accounts, id)
               => (address' = firstAccount(accounts) /\ chainId' = id)
        /\ \A e \in ProviderErrors :
             ConnectReject(e) => (address' = address /\ chainId' = chainId)
        /\ \A f \in BagToSet(seqConnects) : \A e \in ProviderErrors :
             SeqConnectReject(f, e) => f.addr = ""]_vars

\* C17: with two components using the hook, once a successful connect() or a
\* disconnect() made through one of them has settled (and it was the last thing
\* to happen to the wallet), both instances report the same address, hence the
\* same isConnected.
C17_InstancesAgree ==
  (/\ connectsInFlight = 0 /\ initPc # "pending" /\ peerInitPc # "pending"
   /\ \/ lastConnect.set /\ lastConnect.addr # ""
      \/ hasProvider /\ ~providerRef)
    => (address = peerAddress /\ (address # "") = (peerAddress # ""))

\* C19: a rejection of connect, onInitiate, the escrow onDeposit, the dashboard
\* onDeposit or the link-account onSubmit ends the busy state it belongs to
\* (connecting, step pending, sending, submitting) in the step that handles it,
\* and leaves a retry or cancel action enabled; a busy state is on only while a
\* call it waits for is outstanding, so none stays on forever.
C19_RejectionsLeaveRecoverableState ==
  /\ [](/\ connecting => connectsInFlight > 0
        /\ step = "pending" => pendingDeposit # EmptyBag
        /\ sending => pendingSend > 0
        /\ submitting => pendingSubmit > 0)
  /\ [][/\ \A e \in ProviderErrors :
             ConnectReject(e) => (~connecting' /\ walletError' # "")
        /\ \A c \in BagToSet(pendingInitiate) : \A msg \in HandlerErrors :
             InitiateReject(c, msg)
               => /\ step' # "pending" /\ error' # ""
                  /\ (open' /\ isConnected') => (ContinueOffered' /\ canProceed')
        /\ \A c \in BagToSet(pendingDeposit) : \A msg \in HandlerErrors :
             DepositReject(c, msg)
               => /\ step' = "failure" /\ error' # ""
                  /\ open' => RetryOffered'
        /\ \A msg \in HandlerErrors :
             SendReject(msg)
               => /\ ~sending' /\ sendError' # ""
                  /\ canDeposit' => DepositButtonEnabled'
        /\ \A msg \in HandlerErrors :
             SubmitReject(msg)
               => /\ ~submitting' /\ linkError' # ""
                  /\ (linkOpen' /\ touched' /\ validateTag(linkTag')) => canSubmit']_vars
\* the escrow deposit, the dashboard deposit and the link submit were each
\* rejected: Retry, Deposit and Link Account are enabled again
C19_Witness ==
  /\ open /\ step = "failure" /\ error # "" /\ RetryOffered
  /\ sendError # "" /\ ~sending /\ DepositButtonEnabled
  /\ linkOpen /\ linkError # "" /\ ~submitting /\ canSubmit
  /\ ~connecting

InRange(v) == v.k = "num" /\ globalMin <= v.n /\ v.n <= globalMax

\* C21: an edit of min to a value v (inside the global range) above the current
\* max yields {v, v}, an edit of max to a value v below the current min yields
\* {v, v}; when the other field holds unparsed text during the edit and the
\* ordering is restored by the following blur, the edited bound still keeps v.
C21_EditedBoundWinsOnCoercion ==
  [][/\ \A raw \in FilterTexts :
          (/\ handleMinChange(Str(raw))
           /\ InRange(ParseFloat(Str(raw))) /\ InRange(local.max)
           /\ ParseFloat(Str(raw)).n > local.max.n)
            => local' = Pair(ParseFloat(Str(raw)), ParseFloat(Str(raw)))
     /\ \A raw \in FilterTexts :
          (/\ handleMaxChange(Str(raw))
           /\ InRange(ParseFloat(Str(raw))) /\ InRange(local.min)
           /\ ParseFloat(Str(raw)).n < local.min.n)
            => local' = Pair(ParseFloat(Str(raw)), ParseFloat(Str(raw)))
     \* min was edited while max held text: local.min differs from the emitted min
     /\ (/\ handleBlurCoerceAndEmit
         /\ IsNull(ParseFloat(local.max)) /\ InRange(local.min)
         /\ InRange(lastEmittedRef.max) /\ local.min # lastEmittedRef.min
         /\ local.min.n > lastEmittedRef.max.n)
          => local' = Pair(local.min, local.min)
     \* max was edited while min held text: local.max differs from the emitted max
     /\ (/\ handleBlurCoerceAndEmit
         /\ IsNull(ParseFloat(local.min)) /\ InRange(local.max)
         /\ InRange(lastEmittedRef.min) /\ local.max # lastEmittedRef.max
         /\ local.max.n < lastEmittedRef.min.n)
          => local' = Pair(local.max, local.max)]_vars

\* C22: a preset p sets the pair to exactly {p.min, p.max} and is emitted if and
\* only if it differs from the last emitted pair; 'Any' is {globalMin, globalMax}
\* and '<= 0.1 ETH' is {globalMin, 0.1}.
C22_PresetReplacesPairAndEmitsOnChange ==
  /\ [](/\ Pair(Num(globalMin), Num(globalMax)) \in presets
        /\ Pair(Num(globalMin), Num(PresetTenth)) \in presets)
  /\ [][\A p \in presets :
          applyPreset(p)
            => /\ local' = p
               /\ (emitted' # emitted) <=> (p # lastEmittedRef)
               /\ (emitted' # emitted) => (emitted'.pair = p /\ p # emitted.pair)
               /\ (emitted' = emitted) => p = emitted.pair]_vars
\* bounds [0.01, 5], supplied value {0.2, 0.8}: the '<= 0.1 ETH' preset was
\* applied and {0.01, 0.1} was emitted
C22_Witness ==
  /\ globalMin = 1 /\ globalMax = 500 /\ ~controlled
  /\ value = Pair(Num(20), Num(80))
  /\ local = Pair(Num(1), Num(10))
  /\ emitted = [n |-> 1, pair |-> Pair(Num(1), Num(10))]
  /\ lastEmittedRef = local

\* C23: every numeric bound of the pair the filter holds, and of the pair it
\* last emitted, lies inside [globalMin, globalMax].
C23_PairInsideGlobalRange ==
  /\ local.min.k = "num" => InRange(local.min)
  /\ local.max.k = "num" => InRange(local.max)
  /\ InRange(emitted.pair.min) /\ InRange(emitted.pair.max)

\* C24: when the on-chain deposit resolved with a txHash and the backend
\* confirmation that follows throws, handleDeposit still resolves with that
\* txHash: the modal's call ends in step success with the txHash of the chain,
\* without an error, and reports success.
C24_ConfirmFailureIsNotFatal ==
  [][(depositCall.stage = "confirm" /\ depositCall'.stage = "none")
       => /\ depositCall.tx \in TxHashes
          /\ step' = "success"
          /\ txHash' = depositCall.tx
          /\ error' = error
          /\ completions'[Len(completions')].status = "success"]_vars
C24_Witness ==
  /\ open /\ step = "success" /\ error = ""
  /\ matchId = 7
  /\ depositCall = [stage |-> "none", matchId |-> 7, tx |-> "0xabc123", warned |-> TRUE]
  /\ txHash = "0xabc123"
  /\ pendingDeposit = EmptyBag

C26_PairConstructedOnce ==
  [][providerRef' => providerRef]_vars

\* C27: the address goes from non-empty to empty only in a disconnect() or an
\* accountsChanged event with an empty list; a passive read or a connect()
\* answered with [] leaves a set address alone.
C27_AddressClearedOnlyExplicitly ==
  [][(address # "" /\ address' = "")
       => (Disconnect \/ handleAccountsChanged(<<>>))]_vars

\* C28: a call of an earlier session (stale: the modal was closed and reopened
\* since it started) that settles while the modal is open changes neither step,
\* error nor txHash and does not invoke onComplete.
C28_StaleCallsLeaveNewSessionAlone ==
  [][/\ \A c \in BagToSet(pendingInitiate) :
          (open /\ c.stale
             /\ (InitiateResolve(c) \/ \E msg \in HandlerErrors : InitiateReject(c, msg)))
            => UNCHANGED <<step, error, txHash, completions>>
     /\ \A c \in BagToSet(pendingDeposit) :
          (open /\ c.stale
             /\ (\/ \E h \in DepositReplies : DepositResolve(c, h)
                 \/ \E msg \in HandlerErrors : DepositReject(c, msg)))
            => UNCHANGED <<step, error, txHash, completions>>]_vars

\* C29: once disconnect() has run and connect() has not been called since (the
\* pair it dropped is still missing), an empty address becomes non-empty only
\* in an accountsChanged event with a non-empty list.
C29_DisconnectedUntilConnectOrEvent ==
  [][(hasProvider /\ ~providerRef /\ address = "" /\ address' # "")
       => \E accounts \in AccountLists \ {<<>>} : handleAccountsChanged(accounts)]_vars

\* C30: when onDeposit resolves with { txHash: h }, onComplete receives
\* { status: 'success', txHash: h }, the identifier the modal records.
C30_OnCompleteCarriesTxHash ==
  [][\A c \in BagToSet(pendingDeposit), h \in TxHashes :
       DepositResolve(c, h)
         => /\ txHash' = h
            /\ completions'[Len(completions')] = [status |-> "success", txHash |-> h]]_vars

=============================================================================
